---- MODULE Spec2Model ----
(***************************************************************************)
(* Frello: the todo REST API (Express router over a Prisma/SQLite table)   *)
(* of api/src/routers/todos.ts.  The table is the Todo model of the        *)
(* Prisma schema; every route handler is one ORM call followed by the      *)
(* response.  On top of it, the React app of app/src: the ["todos"] query   *)
(* of hooks/useTodos.ts, the creation form and the toggle and delete       *)
(* buttons, whose handlers fetch and then call the query's refetch().       *)
(*                                                                         *)
(* The schema listing names the text column "name" while the sentence      *)
(* below it, the routes and the UI call it "title"; the model uses         *)
(* "title", the name every route and component reads and writes.           *)
(***************************************************************************)
EXTENDS Integers, Sequences, FiniteSets, TLC

\* ------------------------------------------------------------------ bounds
\* Largest id the table hands out in a run (POST is disabled beyond it).
MaxId == 2
\* Number of client connections that may hold a request in flight.
MaxInflight == 2

\* ------------------------------------------------------------ value domains
Descriptions == {"2 litres"}
\* JSON null / SQL NULL.
Null == "null"

Max(a, b) == IF a >= b THEN a ELSE b

\* ------------------------------------------------------------ parseInt(id)
\* Route parameters are strings; they are sequences of characters here.
DigitChars == <<"1", "2", "3", "4", "5", "6", "7", "8", "9">>
IsDigit(c) == c \in {"0", "1", "2", "3", "4", "5", "6", "7", "8", "9"}
DigitVal(c) ==
    CASE c = "0" -> 0 [] c = "1" -> 1 [] c = "2" -> 2 [] c = "3" -> 3 [] c = "4" -> 4
      [] c = "5" -> 5 [] c = "6" -> 6 [] c = "7" -> 7 [] c = "8" -> 8 [] c = "9" -> 9

\* Value of the longest prefix of digits of s, reading left to right with
\* acc the value read so far.
RECURSIVE ParseDigits(_, _)
ParseDigits(s, acc) ==
    IF s = <<>> \/ ~IsDigit(Head(s))
    THEN acc
    ELSE ParseDigits(Tail(s), acc * 10 + DigitVal(Head(s)))

\* parseInt: NaN when the string does not start with a digit, otherwise the
\* number its leading digits spell (trailing characters are ignored).
parseInt(s) ==
    IF s = <<>> \/ ~IsDigit(Head(s))
    THEN [nan |-> TRUE, val |-> 0]
    ELSE [nan |-> FALSE, val |-> ParseDigits(s, 0)]

\* ------------------------------------------------------------------- bodies
\* A JSON object over the fields of a Todo.  has is the set of fields the
\* object carries; a field outside has is undefined and holds a fixed filler.
Body(has, i, t, d, k) ==
    [has |-> has,
     id |-> IF "id" \in has THEN i ELSE 0,
     title |-> IF "title" \in has THEN t ELSE "",
     description |-> IF "description" \in has THEN d ELSE Null,
     is_done |-> IF "is_done" \in has THEN k ELSE FALSE]

\* const { ... } = req.body; data: { ... } : the destructured fields only.  A
\* field the body omits is undefined, which Prisma reads as "not provided".
Pick(body, fields) ==
    Body(body.has \cap fields, body.id, body.title, body.description, body.is_done)

\* Bodies a client posts: nothing, a title, a title with a description, and
\* the same with a stray is_done.
PostBodies ==
    {Body(has, 0, "Buy milk", d, TRUE) :
        has \in {{}, {"title"}, {"title", "description"}, {"title", "description", "is_done"}},
        d \in Descriptions}

\* Bodies a client puts: nothing, each field alone, and the whole record, id
\* included, as the UI sends it.
PutBodies ==
    {Body(has, MaxId + 1, "Walk dog", Null, k) :
        has \in {{}, {"title"}, {"description"}, {"is_done"},
                 {"id", "title", "description", "is_done"}},
        k \in BOOLEAN}

\* Route parameters: the decimal ids and one that is no number.
IdParams == {<<DigitChars[i]>> : i \in 1..MaxId} \cup {<<"x">>}

ListReq == [route |-> "list"]
GetReq(p) == [route |-> "get", id |-> p]
PostReq(b) == [route |-> "post", body |-> b]
PutReq(p, b) == [route |-> "put", id |-> p, body |-> b]
DeleteReq(p) == [route |-> "delete", id |-> p]
NoReq == [route |-> "none"]

\* ------------------------------------------------------------------- state
VARIABLES
    store,      \* the Todo table: its rows in rowid (= id) order
    seq,        \* sqlite_sequence of the table: the largest id ever assigned
    req,        \* the request handled last
    resp,       \* the response to it
    \* What the clients have seen so far (history, read by the properties).
    before,     \* the table as it was when the last request arrived
    issued,     \* the ids returned by a 201, in the order they were returned
    created,    \* ids returned by a 201 and not deleted with a 204 since
    doneAck,    \* ids whose last acknowledged update set is_done to true
    deleted,    \* ids whose DELETE was answered 204
    exPos,      \* how far the run has followed the README example sequence
    \* Requests issued by clients and not yet handled by the server.
    inflight,   \* the requests in flight, each with its connection
    race,       \* the pair of overlapping updates the last step completed, if any
    \* The React app (one browser tab).
    mounted,    \* whether the app has rendered
    cache,      \* data of the ["todos"] query: <<>> while undefined, else <<rows>>
    title,      \* the form's title input
    description, \* the form's description input
    fetches,    \* the app's fetch() calls that have not settled
    clicks,     \* how many submits and button clicks there have been
    \* What the app has done so far (history, read by the properties).
    failed,     \* whether a fetch of a click was rejected or answered with an error
    ev          \* the last step of the app, with the app's state before it

server == <<store, seq>>
history == <<before, issued, created, doneAck, deleted, exPos>>
net == <<inflight, race>>
app == <<mounted, cache, title, description, fetches, clicks>>
ui == <<app, failed, ev>>
vars ==
    <<store, seq, req, resp, before, issued, created, doneAck, deleted, exPos, inflight, race,
      mounted, cache, title, description, fetches, clicks, failed, ev>>

\* ------------------------------------------------------------ the Todo table
Ids(tbl) == {tbl[n].id : n \in DOMAIN tbl}
Row(tbl, id) == tbl[CHOOSE n \in DOMAIN tbl : tbl[n].id = id]

\* NewRow with the description defaulting to the empty string.
NewRow_emptyDescription(id, data) ==
    [id |-> id,
     title |-> data.title,
     description |-> IF "description" \in data.has THEN data.description ELSE "",
     is_done |-> IF "is_done" \in data.has THEN data.is_done ELSE FALSE]

\* A new row: description defaults to NULL, is_done to false.
NewRow(id, data) ==
    [id |-> id,
     title |-> data.title,
     description |-> IF "description" \in data.has THEN data.description ELSE Null,
     is_done |-> IF "is_done" \in data.has THEN data.is_done ELSE FALSE]

\* NextId of a plain INTEGER PRIMARY KEY (no AUTOINCREMENT): one more than
\* the largest id now in the table.
NextId_reuse(tbl, sq) ==
    IF tbl = <<>> THEN 1 ELSE (CHOOSE i \in Ids(tbl) : \A j \in Ids(tbl) : j <= i) + 1

\* @id @default(autoincrement()): one more than the largest id the table
\* ever assigned, whether or not that row still exists.
NextId(tbl, sq) == sq + 1

\* db.todo.create: fails validation when the required title is missing.
PrismaCreate(tbl, sq, data) ==
    IF "title" \notin data.has
    THEN [ok |-> FALSE]
    ELSE LET id == NextId(tbl, sq)
             row == NewRow(id, data)
         IN [ok |-> TRUE, row |-> row, seq |-> Max(sq, id), tbl |-> Append(tbl, row)]

\* Overwrite as a replacement of the row: omitted columns fall back to their
\* defaults.
Overwrite_replace(row, data) ==
    [id |-> row.id,
     title |-> IF "title" \in data.has THEN data.title ELSE row.title,
     description |-> IF "description" \in data.has THEN data.description ELSE Null,
     is_done |-> IF "is_done" \in data.has THEN data.is_done ELSE FALSE]

\* Overwrite that leaves is_done to whoever set it first: a completed todo
\* stays completed.
Overwrite_stickyDone(row, data) ==
    [id |-> row.id,
     title |-> IF "title" \in data.has THEN data.title ELSE row.title,
     description |-> IF "description" \in data.has THEN data.description ELSE row.description,
     is_done |-> IF "is_done" \in data.has THEN (row.is_done \/ data.is_done) ELSE row.is_done]

\* The row after an update: provided columns overwritten, the others kept.
Overwrite(row, data) ==
    [id |-> row.id,
     title |-> IF "title" \in data.has THEN data.title ELSE row.title,
     description |-> IF "description" \in data.has THEN data.description ELSE row.description,
     is_done |-> IF "is_done" \in data.has THEN data.is_done ELSE row.is_done]

\* PrismaUpdate as an upsert: a missing id gets a row.
PrismaUpdate_upsert(tbl, where, data) ==
    IF where.nan
    THEN [ok |-> FALSE]
    ELSE IF where.val \in Ids(tbl)
         THEN [ok |-> TRUE,
               tbl |-> [n \in DOMAIN tbl |->
                           IF tbl[n].id = where.val THEN Overwrite(tbl[n], data) ELSE tbl[n]]]
         ELSE [ok |-> TRUE,
               tbl |-> Append(tbl, [id |-> where.val, title |-> data.title,
                                    description |-> data.description,
                                    is_done |-> data.is_done])]

\* db.todo.update: fails when the id is NaN or no row has it.
PrismaUpdate(tbl, where, data) ==
    IF where.nan \/ where.val \notin Ids(tbl)
    THEN [ok |-> FALSE]
    ELSE [ok |-> TRUE,
          tbl |-> [n \in DOMAIN tbl |->
                      IF tbl[n].id = where.val THEN Overwrite(tbl[n], data) ELSE tbl[n]]]

\* The rows that stay when the row of an id is deleted.
Keep(tbl, id) == SelectSeq(tbl, LAMBDA row : row.id # id)

\* PrismaDelete without its where clause: every row goes.
PrismaDelete_all(tbl, where) ==
    IF where.nan \/ where.val \notin Ids(tbl)
    THEN [ok |-> FALSE]
    ELSE [ok |-> TRUE, tbl |-> <<>>]

\* db.todo.delete: fails when the id is NaN or no row has it.
PrismaDelete(tbl, where) ==
    IF where.nan \/ where.val \notin Ids(tbl)
    THEN [ok |-> FALSE]
    ELSE [ok |-> TRUE, tbl |-> Keep(tbl, where.val)]

\* db.todo.findUnique: the row, null when there is none, failure on NaN.
PrismaFindUnique(tbl, where) ==
    IF where.nan
    THEN [ok |-> FALSE]
    ELSE IF where.val \in Ids(tbl)
         THEN [ok |-> TRUE, found |-> TRUE, row |-> Row(tbl, where.val)]
         ELSE [ok |-> TRUE, found |-> FALSE]

\* PrismaFindMany filtered to the pending rows.
PrismaFindMany_pending(tbl) == SelectSeq(tbl, LAMBDA row : ~row.is_done)

\* db.todo.findMany: every row.
PrismaFindMany(tbl) == tbl

\* ---------------------------------------------------------------- responses
NoResp == [status |-> 0, kind |-> "none"]
Json(code, kind, body) == [status |-> code, kind |-> kind, body |-> body]
Empty(code) == [status |-> code, kind |-> "empty"]
\* The ORM call rejected inside the async handler: the await throws, the
\* handler's promise rejects and the handler sends nothing (no status, no
\* body).  What the caller then sees is Express's and Node's doing, not the
\* router's: a bare 500 or a dropped connection.
Rejected == [status |-> 0, kind |-> "rejected"]

\* ----------------------------------------------------------------- handlers
\* GET /api/todos
GetAll ==
    /\ resp' = Json(200, "list", PrismaFindMany(store))
    /\ UNCHANGED <<store, seq>>

\* GetOne with findUniqueOrThrow: a missing id rejects.
GetOne_orThrow(p) ==
    LET r == PrismaFindUnique(store, parseInt(p))
    IN /\ IF r.ok /\ r.found
          THEN resp' = Json(200, "todo", r.row)
          ELSE resp' = Rejected
       /\ UNCHANGED <<store, seq>>

\* GET /api/todos/:id
GetOne(p) ==
    LET r == PrismaFindUnique(store, parseInt(p))
    IN /\ IF r.ok
          THEN resp' = (IF r.found THEN Json(200, "todo", r.row) ELSE Json(200, "null", Null))
          ELSE resp' = Rejected
       /\ UNCHANGED <<store, seq>>

\* Create handing the whole request body to the ORM.
Create_wholeBody(body) ==
    LET r == PrismaCreate(store, seq, Pick(body, {"title", "description", "is_done"}))
    IN IF r.ok
       THEN /\ store' = r.tbl
            /\ seq' = r.seq
            /\ resp' = Json(201, "todo", r.row)
       ELSE /\ resp' = Rejected
            /\ UNCHANGED <<store, seq>>

\* POST /api/todos
Create(body) ==
    LET r == PrismaCreate(store, seq, Pick(body, {"title", "description"}))
    IN IF r.ok
       THEN /\ store' = r.tbl
            /\ seq' = r.seq
            /\ resp' = Json(201, "todo", r.row)
       ELSE /\ resp' = Rejected
            /\ UNCHANGED <<store, seq>>

\* Update that forgets is_done in the data it passes on.
Update_noDone(p, body) ==
    LET r == PrismaUpdate(store, parseInt(p), Pick(body, {"title", "description"}))
    IN IF r.ok
       THEN /\ store' = r.tbl
            /\ resp' = Empty(204)
            /\ UNCHANGED seq
       ELSE /\ resp' = Rejected
            /\ UNCHANGED <<store, seq>>

\* PUT /api/todos/:id
Update(p, body) ==
    LET r == PrismaUpdate(store, parseInt(p), Pick(body, {"title", "description", "is_done"}))
    IN IF r.ok
       THEN /\ store' = r.tbl
            /\ resp' = Empty(204)
            /\ UNCHANGED seq
       ELSE /\ resp' = Rejected
            /\ UNCHANGED <<store, seq>>

\* DELETE /api/todos/:id
Remove(p) ==
    LET r == PrismaDelete(store, parseInt(p))
    IN IF r.ok
       THEN /\ store' = r.tbl
            /\ resp' = Empty(204)
            /\ UNCHANGED seq
       ELSE /\ resp' = Rejected
            /\ UNCHANGED <<store, seq>>

\* --------------------------------------------------------------- history
\* The example sequence of the specification's testable properties.
ExampleReqs ==
    <<PostReq(Body({"title"}, 0, "Buy milk", Null, FALSE)),
      PutReq(<<"1">>, Body({"is_done"}, 0, "", Null, TRUE)),
      GetReq(<<"1">>),
      DeleteReq(<<"1">>),
      ListReq>>

\* The id a request addresses, when its parameter is a number.
Target(r) ==
    IF r.route \in {"get", "put", "delete"}
    THEN LET w == parseInt(r.id) IN IF w.nan THEN {} ELSE {w.val}
    ELSE {}

Acked(r, rs, route, code) == r.route = route /\ rs.status = code

\* The history after request r was answered rs.
Observe(r, rs) ==
    LET t == Target(r)
    IN /\ before' = store
       /\ issued' = IF Acked(r, rs, "post", 201) THEN Append(issued, rs.body.id) ELSE issued
       /\ created' =
             IF Acked(r, rs, "post", 201) THEN created \cup {rs.body.id}
             ELSE IF Acked(r, rs, "delete", 204) THEN created \ t
             ELSE created
       /\ doneAck' =
             IF Acked(r, rs, "put", 204)
             THEN IF "is_done" \in r.body.has /\ r.body.is_done
                  THEN doneAck \cup t
                  ELSE doneAck \ t
             ELSE IF Acked(r, rs, "delete", 204) THEN doneAck \ t
             ELSE doneAck
       /\ deleted' = IF Acked(r, rs, "delete", 204) THEN deleted \cup t ELSE deleted
       /\ exPos' =
             IF exPos < Len(ExampleReqs) /\ r = ExampleReqs[exPos + 1]
             THEN exPos + 1
             ELSE Len(ExampleReqs) + 1

\* The router: one request dispatched to its handler.
Handle(r) ==
    /\ req' = r
    /\ CASE r.route = "list" -> GetAll
         [] r.route = "get" -> GetOne(r.id)
         [] r.route = "post" -> Create(r.body)
         [] r.route = "put" -> Update(r.id, r.body)
         [] r.route = "delete" -> Remove(r.id)
    /\ Observe(r, resp')

\* ------------------------------------------------------ the app's requests
\* `${id}` in a URL: the decimal digits of a non-negative integer.
DigitChar(d) == IF d = 0 THEN "0" ELSE DigitChars[d]
RECURSIVE ToDecimal(_)
ToDecimal(n) ==
    IF n < 10 THEN <<DigitChar(n)>> ELSE ToDecimal(n \div 10) \o <<DigitChar(n % 10)>>

\* handleSubmit's payload: the two inputs, as they are at the submit.
newTodo(t, d) == Body({"title", "description"}, 0, t, d, FALSE)

\* completeTodo(todo, is_done): a PUT for todo.id carrying { ...todo, is_done }.
completeTodo(todo, is_done) ==
    PutReq(ToDecimal(todo.id),
           Body({"id", "title", "description", "is_done"},
                todo.id, todo.title, todo.description, is_done))

\* deleteTodo(id): a DELETE for the id, without a body.
deleteTodo(id) == DeleteReq(ToDecimal(id))

\* UpdateButtonComponent with the two branches swapped.
UpdateButtonComponent_swapped(todo) ==
    IF todo.is_done
    THEN [label |-> "Pending", onClick |-> completeTodo(todo, TRUE)]
    ELSE [label |-> "Completed", onClick |-> completeTodo(todo, FALSE)]

\* UpdateButtonComponent: the label of the button and the request a click
\* on it sends, both decided by the is_done of the record it was rendered
\* with.
UpdateButtonComponent(todo) ==
    IF todo.is_done
    THEN [label |-> "Completed", onClick |-> completeTodo(todo, FALSE)]
    ELSE [label |-> "Pending", onClick |-> completeTodo(todo, TRUE)]

\* TodoListComponent: the cards on screen, one per record of the query's
\* data; none while the data is undefined.
Cards == IF cache = <<>> THEN <<>> ELSE cache[1]

\* ------------------------------------------------------- the app's fetches
\* A fetch() of a click handler: n is the click it belongs to, kind the
\* handler, stage "sent" until the server has handled the request and
\* "answered" while the response travels back.
MutationFetch(n, kind, r) ==
    [n |-> n, kind |-> kind, r |-> r, stage |-> "sent", resp |-> NoResp,
     by |-> {}, clears |-> FALSE]

\* The fetch of the ["todos"] query (fetchTodos).  by holds the settled
\* fetches whose .then called the refetch() this fetch answers; clears tells
\* whether a submit is among them, waiting to clear the form.
QueryFetch(by, clears) ==
    [n |-> 0, kind |-> "list", r |-> ListReq, stage |-> "sent", resp |-> NoResp,
     by |-> by, clears |-> clears]

\* What a fetch holds once answered: the query's fetch the response it will
\* parse, the fetch of a click the status only, for no handler reads more.
Answered(f, rs) ==
    [f EXCEPT !.stage = "answered",
              !.resp = IF f.kind = "list" THEN rs ELSE [status |-> rs.status, kind |-> rs.kind]]

\* A settled fetch, as the fetch of the query it asked for remembers it.
Caller(f) == [n |-> f.n, kind |-> f.kind, status |-> f.resp.status]

Mutations(fs) == {f \in fs : f.kind # "list"}
Queries(fs) == {f \in fs : f.kind = "list"}

\* The app's state, as an event remembers it.
Snapshot ==
    [cache |-> cache, title |-> title, description |-> description, fetches |-> fetches]

\* The last step of the app: what happened, on which card, to which fetch,
\* which fetch of the query it cancelled, and the state before.
Event(kind, todo, f, cancelled) ==
    [kind |-> kind, todo |-> todo, f |-> f, cancelled |-> cancelled, was |-> Snapshot]
NoEvent ==
    [kind |-> "none", todo |-> <<>>, f |-> <<>>, cancelled |-> <<>>,
     was |-> [cache |-> <<>>, title |-> "", description |-> "", fetches |-> {}]]

\* ------------------------------------------------------- one client, in turn
\* A client sends a request and waits for its response before the next one.
List == Handle(ListReq) /\ UNCHANGED <<net, ui>>
Get == (\E p \in IdParams : Handle(GetReq(p))) /\ UNCHANGED <<net, ui>>
Post == seq < MaxId /\ (\E b \in PostBodies : Handle(PostReq(b))) /\ UNCHANGED <<net, ui>>
Put == (\E p \in IdParams, b \in PutBodies : Handle(PutReq(p, b))) /\ UNCHANGED <<net, ui>>
Delete == (\E p \in IdParams : Handle(DeleteReq(p))) /\ UNCHANGED <<net, ui>>

Init ==
    /\ store = <<>>
    /\ seq = 0
    /\ req = NoReq
    /\ resp = NoResp
    /\ before = <<>>
    /\ issued = <<>>
    /\ created = {}
    /\ doneAck = {}
    /\ deleted = {}
    /\ exPos = 0
    /\ inflight = {}
    /\ race = <<>>
    /\ mounted = FALSE
    /\ cache = <<>>
    /\ title = ""
    /\ description = ""
    /\ fetches = {}
    /\ clicks = 0
    /\ failed = FALSE
    /\ ev = NoEvent

Next == List \/ Get \/ Post \/ Put \/ Delete

Spec == Init /\ [][Next]_vars

\* ------------------------------------------------- clients that do not wait
\* Requests overlap: up to MaxInflight connections each hold one request the
\* server has not handled yet.  The server is single-threaded and each
\* handler awaits exactly one ORM call, so it handles one request per step,
\* in any order.
Conns == 1..MaxInflight

\* What the overlapping clients send: creates, and updates and deletes of
\* the first todo.
RaceBodies ==
    {Body(has, 1, "Walk dog", Null, k) :
        has \in {{"title"}, {"is_done"}, {"id", "title", "description", "is_done"}},
        k \in BOOLEAN}
RaceReqs ==
    {PostReq(Body({"title"}, 0, "Buy milk", Null, FALSE)), DeleteReq(<<"1">>)}
    \cup {PutReq(<<"1">>, b) : b \in RaceBodies}

FreeConns == Conns \ {e.conn : e \in inflight}
PostsInFlight == Cardinality({e \in inflight : e.r.route = "post"})

\* A client sends r on the lowest free connection.  seen will hold the body of
\* the last update of the same id the server applies while r is in flight.
Issue ==
    /\ FreeConns # {}
    /\ \E r \in RaceReqs :
          /\ r.route = "post" => seq + PostsInFlight < MaxId
          /\ inflight' = inflight \cup
                {[conn |-> CHOOSE c \in FreeConns : \A d \in FreeConns : c <= d,
                  r |-> r, seen |-> <<>>]}
    /\ race' = <<>>
    /\ UNCHANGED <<server, req, resp, history, ui>>

\* The in-flight request o after the server applied e and answered rs.
Overlapped(o, e, rs) ==
    IF Acked(e.r, rs, "put", 204) /\ o.r.route = "put" /\ Target(o.r) = Target(e.r)
    THEN [o EXCEPT !.seen = <<e.r.body>>]
    ELSE o

\* The server handles one of the requests in flight.
Serve ==
    \E e \in inflight :
        /\ Handle(e.r)
        /\ inflight' = {Overlapped(o, e, resp') : o \in inflight \ {e}}
        /\ race' =
              IF Acked(e.r, resp', "put", 204) /\ e.seen # <<>>
              THEN <<[id |-> CHOOSE i \in Target(e.r) : TRUE, first |-> e.seen[1], last |-> e.r.body]>>
              ELSE <<>>
        /\ UNCHANGED ui

NextRace == Issue \/ Serve

SpecRace == Init /\ [][NextRace]_vars

\* ------------------------------------------------------------------ the app
\* One browser tab running the React app against the server.  A request the
\* app sends reaches the server some time later, and its response reaches
\* the app some time after the server has handled it; neither order is fixed.
\* The server handles one request per step, as above.

\* Number of submits and button clicks in a run of the whole app, and in a
\* run of quick clicking.
MaxClicks == 3
MaxRapid == 4

\* What the user types into the form.
FormTitles == {"Buy milk"}
FormDescriptions == {"2 litres"}

CreatesInFlight == Cardinality({f \in fetches : f.kind = "create" /\ f.stage = "sent"})

\* <QueryClientProvider><App/>: the first render.  useQuery has no data and
\* starts the query's first fetch.
Mount ==
    /\ ~mounted
    /\ mounted' = TRUE
    /\ fetches' = {QueryFetch({}, FALSE)}
    /\ ev' = Event("mount", <<>>, <<>>, <<>>)
    /\ UNCHANGED <<server, req, resp, history, net>>
    /\ UNCHANGED <<cache, title, description, clicks, failed>>

\* onChange of the two inputs: setTitle, setDescription.
Type ==
    /\ mounted
    /\ \E t \in FormTitles, d \in FormDescriptions :
          /\ <<t, d>> # <<title, description>>
          /\ title' = t
          /\ description' = d
    /\ ev' = Event("type", <<>>, <<>>, <<>>)
    /\ UNCHANGED <<server, req, resp, history, net>>
    /\ UNCHANGED <<mounted, cache, fetches, clicks, failed>>

\* A click handler that calls refetch() at once, next to its fetch.
Click_refetchAtOnce(kind, todo, r) ==
    /\ Cardinality(Mutations(fetches)) < MaxInflight
    /\ clicks' = clicks + 1
    /\ fetches' = Mutations(fetches) \cup
                     {MutationFetch(clicks + 1, kind, r),
                      QueryFetch({Caller(MutationFetch(clicks + 1, kind, r))}, FALSE)}
    /\ ev' = Event(kind, todo, <<MutationFetch(clicks + 1, kind, r)>>, <<>>)
    /\ UNCHANGED <<server, req, resp, history, net>>
    /\ UNCHANGED <<mounted, cache, title, description, failed>>

\* A click handler up to its fetch(...): the request leaves, and the .then
\* callbacks wait for the fetch to settle.
Click(kind, todo, r) ==
    /\ Cardinality(Mutations(fetches)) < MaxInflight
    /\ clicks' = clicks + 1
    /\ fetches' = fetches \cup {MutationFetch(clicks + 1, kind, r)}
    /\ ev' = Event(kind, todo, <<MutationFetch(clicks + 1, kind, r)>>, <<>>)
    /\ UNCHANGED <<server, req, resp, history, net>>
    /\ UNCHANGED <<mounted, cache, title, description, failed>>

\* handleSubmit sending an empty record instead of the inputs.
handleSubmit_blank ==
    /\ mounted
    /\ title \in FormTitles
    /\ seq + CreatesInFlight < MaxId
    /\ Click("create", <<>>, PostReq(newTodo("", "")))

\* handleSubmit: the form is on screen from the first render on.  The user
\* submits what they typed.
handleSubmit ==
    /\ mounted
    /\ title \in FormTitles
    /\ seq + CreatesInFlight < MaxId
    /\ Click("create", <<>>, PostReq(newTodo(title, description)))

\* onClick of the toggle button of a card.
Toggle ==
    \E i \in DOMAIN Cards :
        Click("toggle", <<Cards[i]>>, UpdateButtonComponent(Cards[i]).onClick)

\* onClick of the delete button of a card.
DeleteClick ==
    \E i \in DOMAIN Cards :
        Click("delete", <<Cards[i]>>, deleteTodo(Cards[i].id))

\* refetch() of the query, called by the .then of fetch f (useQuery of
\* @tanstack/react-query, called without options).  No fetch running: one
\* starts.  A fetch running and the query has data: that fetch is cancelled
\* (its promise settles now, its response will be ignored) and a new one
\* starts.  A fetch running and no data yet: the call joins it.  A cancelled
\* GET changes nothing on the server, so it leaves the model.
Refetch(fs, f) ==
    LET cur == Queries(fs)
        clears == f.kind = "create"
    IN IF cur = {}
       THEN [fetches |-> fs \cup {QueryFetch({Caller(f)}, clears)}, cancelled |-> <<>>]
       ELSE LET q == CHOOSE l \in cur : TRUE
            IN IF cache # <<>>
               THEN [fetches |-> (fs \ cur) \cup {QueryFetch({Caller(f)}, clears)},
                     cancelled |-> <<q>>]
               ELSE [fetches |-> (fs \ cur) \cup
                                    {[q EXCEPT !.by = @ \cup {Caller(f)},
                                               !.clears = @ \/ clears]},
                     cancelled |-> <<>>]

\* The server with a queue: it takes the oldest request in flight only.
ServeOne_oldestFirst(f) ==
    /\ f.stage = "sent"
    /\ \A g \in fetches : g.stage = "sent" /\ g.kind # "list" /\ f.kind # "list" => f.n <= g.n
    /\ Handle(f.r)
    /\ fetches' = (fetches \ {f}) \cup {Answered(f, resp')}
    /\ ev' = Event("served", <<>>, <<f>>, <<>>)
    /\ UNCHANGED <<net, mounted, cache, title, description, clicks, failed>>

\* The server handles the request of fetch f and sends its response.
ServeOne(f) ==
    /\ f.stage = "sent"
    /\ Handle(f.r)
    /\ fetches' = (fetches \ {f}) \cup {Answered(f, resp')}
    /\ ev' = Event("served", <<>>, <<f>>, <<>>)
    /\ UNCHANGED <<net, mounted, cache, title, description, clicks, failed>>

ServeFetch == \E f \in fetches : ServeOne(f)

\* Settle with a .finally in place of the first .then: refetch() is called
\* however the fetch ended.
Reject_finally(f) ==
    LET re == Refetch(fetches \ {f}, f)
    IN /\ fetches' = re.fetches
       /\ failed' = TRUE
       /\ ev' = Event("reject", <<>>, <<f>>, re.cancelled)
       /\ UNCHANGED <<server, req, resp, history, net>>
       /\ UNCHANGED <<mounted, cache, title, description, clicks>>

\* The fetch of a click is rejected (the request or its response was lost):
\* no .then callback runs.
Reject(f) ==
    /\ fetches' = fetches \ {f}
    /\ failed' = TRUE
    /\ ev' = Event("reject", <<>>, <<f>>, <<>>)
    /\ UNCHANGED <<server, req, resp, history, net>>
    /\ UNCHANGED <<mounted, cache, title, description, clicks>>

\* At most one fetch is lost in a run.
Fail == ~failed /\ \E f \in Mutations(fetches) : Reject(f)

\* The fetch of a click resolves: .then(() => refetch()) runs.  fetch resolves
\* with whatever response arrives, an error status included; when the handler
\* sent nothing, it resolves only if the framework answers in its place.  A
\* submit whose refetch() promise settles here, because its fetch of the
\* query is cancelled, clears the form.
Resolve ==
    \E f \in Mutations(fetches) :
        /\ f.stage = "answered"
        /\ LET re == Refetch(fetches \ {f}, f)
               wipe == re.cancelled # <<>> /\ re.cancelled[1].clears
           IN /\ fetches' = re.fetches
              /\ title' = IF wipe THEN "" ELSE title
              /\ description' = IF wipe THEN "" ELSE description
              /\ ev' = Event("resolve", <<>>, <<f>>, re.cancelled)
        /\ failed' = (failed \/ f.resp.status \notin {201, 204})
        /\ UNCHANGED <<server, req, resp, history, net>>
        /\ UNCHANGED <<mounted, cache, clicks>>

\* The response of the query's fetch arrives: res.json() becomes the data
\* of the query, and the refetch() promises waiting for it settle, so a
\* submit among them clears the form.
Deliver ==
    \E f \in Queries(fetches) :
        /\ f.stage = "answered"
        /\ cache' = <<f.resp.body>>
        /\ fetches' = fetches \ {f}
        /\ title' = IF f.clears THEN "" ELSE title
        /\ description' = IF f.clears THEN "" ELSE description
        /\ ev' = Event("data", <<>>, <<f>>, <<>>)
        /\ UNCHANGED <<server, req, resp, history, net>>
        /\ UNCHANGED <<mounted, clicks, failed>>

\* The whole app: the user types, submits and clicks MaxClicks times in all,
\* and requests may be lost.
Submit == clicks < MaxClicks /\ handleSubmit
ToggleClick == clicks < MaxClicks /\ Toggle
RemoveClick == clicks < MaxClicks /\ DeleteClick

NextUI ==
    \/ Mount \/ Type \/ Submit \/ ToggleClick \/ RemoveClick
    \/ ServeFetch \/ Resolve \/ Fail \/ Deliver

SpecUI == Init /\ [][NextUI]_vars

\* Quick clicking: the same app over a network that loses nothing.  The user
\* adds one todo and then clicks the buttons of its card, MaxRapid submits
\* and clicks in all.
QuickSubmit == clicks = 0 /\ handleSubmit
QuickToggle == clicks < MaxRapid /\ Toggle
QuickRemove == clicks < MaxRapid /\ DeleteClick

NextRapid ==
    \/ Mount \/ Type \/ QuickSubmit \/ QuickToggle \/ QuickRemove
    \/ ServeFetch \/ Resolve \/ Deliver

SpecRapid == Init /\ [][NextRapid]_vars

\* =============================================================== properties
\* Every property reads the last exchange: the request req, the table before
\* it arrived, the response resp and the table store it left.
Rows(tbl) == {tbl[n] : n \in DOMAIN tbl}
IdSeq(tbl) == [n \in DOMAIN tbl |-> tbl[n].id]
\* The request addresses a number that is (not) the id of a row of tbl.
Existing(r, tbl) == Target(r) # {} /\ Target(r) \subseteq Ids(tbl)
Missing(r, tbl) == Target(r) # {} /\ Target(r) \cap Ids(tbl) = {}

\* The exchange appended exactly one row, of is_done false and with an id,
\* and answered 201 with that row.
PostCreated ==
    /\ Len(store) = Len(before) + 1
    /\ SubSeq(store, 1, Len(before)) = before
    /\ LET row == store[Len(store)]
       IN /\ row.is_done = FALSE
          /\ row.id \in Nat
          /\ resp = Json(201, "todo", row)

\* C1 as stated: every POST, whatever its body holds, adds exactly one row
\* with is_done false and a non-null id and answers 201 with that row.
C1_EveryPostCreates == req.route = "post" => PostCreated

\* C1 amended: every POST whose body carries a title, whatever else the body
\* holds (a stray is_done included), adds exactly one row with is_done false
\* and a non-null id and answers 201 with that row.
C1_TitledPostCreates == (req.route = "post" /\ "title" \in req.body.has) => PostCreated

\* A POST carrying is_done: true was answered 201 for a second row.
C1_Witness ==
    /\ req.route = "post"
    /\ "is_done" \in req.body.has
    /\ req.body.is_done
    /\ resp.status = 201
    /\ Len(store) > 1

\* C2: no two rows share an id; the id a create returns is greater than every
\* id returned before, deleted rows included; an update leaves ids alone.
C2_IdsUniqueIncreasing ==
    /\ \A m, n \in DOMAIN store : store[m].id = store[n].id => m = n
    /\ \A m, n \in DOMAIN issued : m < n => issued[m] < issued[n]
    /\ req.route = "put" => IdSeq(store) = IdSeq(before)

\* A create was answered after an earlier row had been deleted.
C2_Witness ==
    /\ Acked(req, resp, "post", 201)
    /\ deleted # {}
    /\ Len(issued) > 1

\* C3: a list result holds a row for every id a create returned with 201
\* and no delete has removed since.
C3_ListIncludesCreated ==
    req.route = "list" =>
        /\ resp.status = 200
        /\ resp.kind = "list"
        /\ \A id \in created : \E n \in DOMAIN resp.body : resp.body[n].id = id

\* A list of two created rows, one of them updated since its creation.
C3_Witness ==
    /\ req.route = "list"
    /\ Cardinality(created) > 1
    /\ doneAck # {}
    /\ Len(resp.body) > 1

\* C4: once a PUT with is_done true was answered 204 and no other update or
\* delete of the id was applied since, GET of the id returns the row with
\* is_done true.
C4_GetReflectsDone ==
    (req.route = "get" /\ Target(req) \cap doneAck # {}) =>
        /\ resp.status = 200
        /\ resp.kind = "todo"
        /\ resp.body.id \in Target(req)
        /\ resp.body.is_done = TRUE

\* A GET of an id whose is_done was acknowledged true.
C4_Witness ==
    /\ req.route = "get"
    /\ Target(req) \cap doneAck # {}
    /\ resp.kind = "todo"

\* The row an update of body b must leave in place of row.
Updated(row, b) ==
    [id |-> row.id,
     title |-> IF "title" \in b.has THEN b.title ELSE row.title,
     description |-> IF "description" \in b.has THEN b.description ELSE row.description,
     is_done |-> IF "is_done" \in b.has THEN b.is_done ELSE row.is_done]

\* C5: an update of an existing id overwrites exactly the fields among title,
\* description and is_done that the body provides, keeps the others and the
\* id (even when the body carries one), leaves every other row alone and
\* answers 204 without a body.
C5_UpdateOverwritesProvided ==
    (req.route = "put" /\ Existing(req, before)) =>
        /\ resp = Empty(204)
        /\ DOMAIN store = DOMAIN before
        /\ \A n \in DOMAIN before :
              store[n] = IF before[n].id \in Target(req)
                         THEN Updated(before[n], req.body)
                         ELSE before[n]

\* A title-only PUT was applied to one of two rows, a completed row with a
\* description, and changed its title.
C5_Witness ==
    /\ req.route = "put"
    /\ resp.status = 204
    /\ req.body.has = {"title"}
    /\ Len(store) > 1
    /\ store # before
    /\ \E row \in Rows(store) :
          /\ row.id \in Target(req)
          /\ row.is_done
          /\ row.description # Null

\* C6: after DELETE of an existing id was answered 204 no list result holds
\* a row of that id, and the delete leaves every other row in place,
\* unchanged.
C6_DeleteRemovesOnlyThat ==
    /\ req.route = "list" => \A n \in DOMAIN resp.body : resp.body[n].id \notin deleted
    /\ Acked(req, resp, "delete", 204) =>
          /\ \A row \in Rows(before) : row.id \notin Target(req) => row \in Rows(store)
          /\ \A row \in Rows(store) : row \in Rows(before) /\ row.id \notin Target(req)
          /\ Len(store) = Len(before) - 1

\* A list answered after a delete and a later create.
C6_Witness ==
    /\ req.route = "list"
    /\ deleted # {}
    /\ Len(resp.body) > 0
    /\ \E id \in deleted : \E row \in Rows(store) : row.id > id

\* C7: GET of a number that is no row's id, never created or deleted,
\* answers 200 with null and leaves the table as it was.
C7_GetMissingIsNull ==
    (req.route = "get" /\ Missing(req, before)) =>
        /\ resp = Json(200, "null", Null)
        /\ store = before

\* A GET of a deleted id answered null.
C7_Witness ==
    /\ req.route = "get"
    /\ Target(req) # {}
    /\ Target(req) \subseteq deleted
    /\ resp.kind = "null"

\* C8: an update or delete of a number that is no row's id fails in the
\* store: the handler never sends its 204 (it sends nothing, so no body
\* either) and no row is created, changed or removed.
C8_MissingIdRejects ==
    (req.route \in {"put", "delete"} /\ Missing(req, before)) =>
        /\ resp.status # 204
        /\ resp = Rejected
        /\ "body" \notin DOMAIN resp
        /\ store = before

\* A PUT of a deleted id was rejected while another row exists.
C8_Witness ==
    /\ req.route = "put"
    /\ Target(req) # {}
    /\ Target(req) \subseteq deleted
    /\ "title" \in req.body.has
    /\ resp.kind = "rejected"
    /\ store # <<>>

\* What the example sequence is expected to answer, request by request.
ExampleResps ==
    <<Json(201, "todo", [id |-> 1, title |-> "Buy milk", description |-> Null, is_done |-> FALSE]),
      Empty(204),
      Json(200, "todo", [id |-> 1, title |-> "Buy milk", description |-> Null, is_done |-> TRUE]),
      Empty(204),
      Json(200, "list", <<>>)>>

\* C9: from the empty, never-used table the example sequence POST, PUT /1,
\* GET /1, DELETE /1, GET / is answered, in order, 201 with the new row of id
\* 1, 204, the row with is_done true, 204 and the empty list.
C9_ExampleSequence ==
    exPos \in 1..Len(ExampleReqs) => resp = ExampleResps[exPos]

\* The whole example sequence has run.
C9_Witness == exPos = Len(ExampleReqs) /\ req = ListReq

\* C10: when two PUTs of one existing id were in flight together and the
\* store has applied both, each in one step, every field both supplied holds
\* the value of the one applied last.
C10_LastWriteWins ==
    race # <<>> =>
        \E row \in Rows(store) :
            /\ row.id = race[1].id
            /\ \A f \in race[1].first.has \cap race[1].last.has \cap {"title", "description", "is_done"} :
                  row[f] = race[1].last[f]

\* Two overlapping PUTs of whole records disagreeing on is_done were both
\* applied.
C10_Witness ==
    /\ race # <<>>
    /\ "is_done" \in race[1].first.has \cap race[1].last.has
    /\ race[1].first.is_done # race[1].last.is_done
    /\ "title" \in race[1].first.has
    /\ resp.status = 204

\* ------------------------------------------------------------------- C11
\* The table and the sequence after the router has handled r on tbl and sq.
Applied(tbl, sq, r) ==
    CASE r.route = "post" ->
            LET c == PrismaCreate(tbl, sq, Pick(r.body, {"title", "description"}))
            IN IF c.ok THEN [tbl |-> c.tbl, seq |-> c.seq] ELSE [tbl |-> tbl, seq |-> sq]
      [] r.route = "put" ->
            LET u == PrismaUpdate(tbl, parseInt(r.id),
                                  Pick(r.body, {"title", "description", "is_done"}))
            IN [tbl |-> IF u.ok THEN u.tbl ELSE tbl, seq |-> sq]
      [] r.route = "delete" ->
            LET d == PrismaDelete(tbl, parseInt(r.id))
            IN [tbl |-> IF d.ok THEN d.tbl ELSE tbl, seq |-> sq]
      [] OTHER -> [tbl |-> tbl, seq |-> sq]

\* The table once the server has handled the request of a and then that of b.
AfterBoth(a, b) ==
    LET one == Applied(store, seq, a.r) IN Applied(one.tbl, one.seq, b.r).tbl

\* Two fetches of clicks whose requests the server has yet to handle.
BothInFlight(a, b) ==
    /\ a \in Mutations(fetches) /\ b \in Mutations(fetches)
    /\ a # b /\ a.stage = "sent" /\ b.stage = "sent"

\* Two toggles of one stored todo that set is_done to different values.
Opposed(a, b) ==
    /\ a.kind = "toggle" /\ b.kind = "toggle"
    /\ a.r.id = b.r.id
    /\ a.r.body.id \in Ids(store)
    /\ a.r.body.is_done # b.r.body.is_done

\* C11: overlapping requests of clicks have no constrained completion order,
\* and the final table depends on that order.  Whenever two requests of clicks
\* are in flight the server may handle either of them next; what a handled
\* PUT or DELETE leaves is what the router makes of the table it found; and
\* when the two are toggles of one todo with different is_done, the todo ends
\* with the is_done of whichever the server handles last.
C11_OrderDecides ==
    /\ \A a, b \in fetches :
          BothInFlight(a, b) =>
             /\ ENABLED ServeOne(a)
             /\ ENABLED ServeOne(b)
             /\ Opposed(a, b) =>
                   /\ Row(AfterBoth(a, b), a.r.body.id).is_done = b.r.body.is_done
                   /\ Row(AfterBoth(b, a), a.r.body.id).is_done = a.r.body.is_done
    /\ (ev.kind = "served" /\ req.route \in {"put", "delete"}) =>
          store = Applied(before, seq, req).tbl

\* After clicks on toggle buttons two PUTs are in flight, nothing else is,
\* and the two orders in which the server may handle them end in different
\* tables.
C11_Witness ==
    \E a, b \in fetches :
        /\ BothInFlight(a, b)
        /\ a.kind = "toggle" /\ b.kind = "toggle"
        /\ fetches = {a, b}
        /\ AfterBoth(a, b) # AfterBoth(b, a)

\* ------------------------------------------------------------------- C12
\* The clicks a fetch of the query answers: the fetches whose .then called
\* the refetch() it runs for.
Callers(fs) == UNION {q.by : q \in Queries(fs)}

\* C12: a mutation does not touch the cached list, and each handler calls
\* refetch() only once its own fetch has resolved.  The data of the query
\* changes only in the step that delivers the response of the query's fetch,
\* and it becomes the list of that response; a submit or click leaves the
\* fetches of the query as they were; no fetch of the query runs for a click
\* whose own fetch is still in flight; and the step in which a fetch resolves
\* is the one in which the query's fetch takes it on.
C12_RefetchAfterResolve ==
    /\ cache # ev.was.cache =>
          /\ ev.kind = "data"
          /\ ev.f[1].r = ListReq
          /\ ev.f[1].resp.status = 200
          /\ cache = <<ev.f[1].resp.body>>
    /\ ev.kind \in {"create", "toggle", "delete"} =>
          /\ Queries(fetches) = Queries(ev.was.fetches)
          /\ cache = ev.was.cache
    /\ \A c \in Callers(fetches) : \A m \in Mutations(fetches) : m.n # c.n
    /\ ev.kind = "resolve" =>
          /\ ev.f[1] \in ev.was.fetches
          /\ ev.f[1].stage = "answered"
          /\ ev.f[1] \notin fetches
          /\ Caller(ev.f[1]) \in Callers(fetches)
          /\ Caller(ev.f[1]) \notin Callers(ev.was.fetches)

\* The response of a refetch that a click asked for has arrived and changed
\* the list on screen.
C12_Witness ==
    /\ ev.kind = "data"
    /\ ev.f[1].by # {}
    /\ cache # ev.was.cache
    /\ ev.was.cache # <<>>

\* ------------------------------------------------------------------- C13
\* C13: a rejected fetch of a submit or click leaves the app as it was.  In
\* the step that rejects it the cached list, the two inputs and the fetches
\* of the query are what they were, the rejected fetch is gone, and no fetch
\* of the query runs for its click.
C13_RejectChangesNothing ==
    ev.kind = "reject" =>
       /\ ev.f[1] \in Mutations(ev.was.fetches)
       /\ cache = ev.was.cache
       /\ title = ev.was.title
       /\ description = ev.was.description
       /\ fetches = ev.was.fetches \ {ev.f[1]}
       /\ \A c \in Callers(fetches) : c.n # ev.f[1].n

\* The fetch of a submit was rejected with text in the form: the text is
\* still there.
C13_Witness ==
    /\ ev.kind = "reject"
    /\ ev.f[1].kind = "create"
    /\ ev.was.title = "Buy milk"
    /\ title = "Buy milk"
    /\ description = "2 litres"

\* ------------------------------------------------------------------- C14
\* The fetch of the query that the last step settled, by its response or
\* by being cancelled.
Settled ==
    IF ev.kind = "data" THEN ev.f
    ELSE IF ev.kind = "resolve" THEN ev.cancelled
    ELSE <<>>

Has201Create(q) == \E c \in q.by : c.kind = "create" /\ c.status = 201

\* C14: a submit posts the two inputs as they are; when the POST has
\* succeeded a refetch is under way for it and the inputs are cleared as that
\* refetch settles; nothing but typing and such a settled refetch changes
\* the inputs.
C14_SubmitThenClear ==
    /\ ev.kind = "create" =>
          /\ ev.f[1].r.route = "post"
          /\ ev.f[1].r.body =
                [has |-> {"title", "description"}, id |-> 0, title |-> ev.was.title,
                 description |-> ev.was.description, is_done |-> FALSE]
          /\ ev.f[1] \in fetches
          /\ title = ev.was.title /\ description = ev.was.description
    /\ (ev.kind = "resolve" /\ ev.f[1].kind = "create") =>
          /\ ev.f[1].resp.status = 201
          /\ \E q \in Queries(fetches) : q.clears /\ Caller(ev.f[1]) \in q.by
    /\ \A q \in Queries(fetches) : q.clears => Has201Create(q)
    /\ (Settled # <<>> /\ Settled[1].clears) => (title = "" /\ description = "")
    /\ (ev.kind # "type" /\ <<title, description>> # <<ev.was.title, ev.was.description>>) =>
          /\ title = "" /\ description = ""
          /\ Settled # <<>>
          /\ Has201Create(Settled[1])

\* The list a submit asked for has arrived and the text typed into the form
\* is gone.
C14_Witness ==
    /\ ev.kind = "data"
    /\ ev.f[1].clears
    /\ ev.was.title = "Buy milk" /\ ev.was.description = "2 litres"
    /\ title = "" /\ description = ""
    /\ \E i \in DOMAIN Cards : Cards[i].title = "Buy milk"

\* ------------------------------------------------------------------- C15
\* C15: a click on a card's toggle button sends a PUT for the card's id with
\* the card's whole record and is_done inverted, and a refetch runs for it
\* once the PUT has resolved, not before; the button reads "Completed" when
\* the record's is_done is true and "Pending" otherwise.
C15_ToggleSendsInverse ==
    /\ ev.kind = "toggle" =>
          /\ \E i \in DOMAIN ev.was.cache[1] : ev.was.cache[1][i] = ev.todo[1]
          /\ ev.f[1].r.route = "put"
          /\ parseInt(ev.f[1].r.id) = [nan |-> FALSE, val |-> ev.todo[1].id]
          /\ ev.f[1].r.body =
                [has |-> {"id", "title", "description", "is_done"},
                 id |-> ev.todo[1].id, title |-> ev.todo[1].title,
                 description |-> ev.todo[1].description,
                 is_done |-> ~ev.todo[1].is_done]
          /\ ev.f[1] \in fetches
          /\ Queries(fetches) = Queries(ev.was.fetches)
    /\ (ev.kind = "resolve" /\ ev.f[1].kind = "toggle") =>
          /\ Caller(ev.f[1]) \in Callers(fetches)
          /\ Caller(ev.f[1]) \notin Callers(ev.was.fetches)
    /\ \A i \in DOMAIN Cards :
          /\ UpdateButtonComponent(Cards[i]).label \in {"Completed", "Pending"}
          /\ UpdateButtonComponent(Cards[i]).label = "Completed" <=> Cards[i].is_done

\* A button that read "Completed" was clicked, and the PUT setting is_done
\* to false has resolved.
C15_Witness ==
    /\ ev.kind = "resolve"
    /\ ev.f[1].kind = "toggle"
    /\ ev.f[1].resp.status = 204
    /\ ev.f[1].r.body.is_done = FALSE

\* ------------------------------------------------------------------- C16
\* Nothing is in flight and nothing has failed: every request of a submit or
\* click and every refetch has completed.
Quiet == mounted /\ fetches = {} /\ ~failed

\* C16: the view converges to the store.  Whenever every request and every
\* refetch has completed without failure, the cached list is the table.
C16_ViewConverges == Quiet => cache = <<store>>

====
